---- MODULE Spec2Model ----
(***************************************************************************)
(* Model of the nutrition backend (src/backend/src/main.rs): two           *)
(* append-only event tables behind one Mutex<Connection>, six axum         *)
(* handlers that validate their path arguments, lock the connection and    *)
(* run one or two SQL statements.                                          *)
(*                                                                         *)
(* A date is a sequence of one-character strings, so that the regular      *)
(* expression of is_valid_date is modelled by what it matches.  A table is *)
(* the sequence of its rows in id order (id INTEGER PRIMARY KEY is the     *)
(* position; the timestamp column is read by no statement).  The handlers   *)
(* under way are a bag: tasks have no identity beyond what they hold.      *)
(***************************************************************************)
EXTENDS Integers, Sequences, FiniteSets, Bags, TLC

\* ---------------------------------------------------------------- bounds
\* Number of handlers that can run at once.
NumProcs == 2
\* Rows the two tables hold together before no further command is admitted.
MaxEvents == 3
\* Largest number of consume calls of the sequential client.
MaxN == 3

\* ---------------------------------------------------------------- inputs
D1 == <<"2","0","2","6","-","0","1","-","0","1">>
\* contains a well-shaped date, but has a character in front of it
DX == <<"x">> \o D1
\* no well-shaped date anywhere in it
DBad == <<"2","0","2","6","-","1","-","1">>

DateInputs == {D1, DX, DBad}
NutrientInputs == {"protein", "carbs", "sugar"}

Digits == {"0","1","2","3","4","5","6","7","8","9"}

\* ---------------------------------------------------------------- state
VARIABLES
    nutrient_events,  \* table nutrient_events: rows [name, date, type]
    goal_events,      \* table goal_events: rows [nutrient, type]
    lock,             \* whether the Mutex<Connection> is locked
    handlers,         \* the handlers under way: a bag of
                      \*   [req, pc, count, guard], guard = holds the MutexGuard
    resp,             \* the response the last step returned, with its request
    script            \* the sequential client (SpecSeq only)

vars == <<nutrient_events, goal_events, lock, handlers, resp, script>>

\* Option<i32>
None == <<>>
Some(x) == <<x>>

NoReq == [op |-> "none", date |-> <<>>, nutrient |-> ""]
NoResp == [req |-> NoReq, status |-> 0, msg |-> "", map |-> <<>>]
NoScript == [phase |-> "off"]

\* ---------------------------------------------------------------- validation
\* [[:digit:]]{4}-[[:digit:]]{2}-[[:digit:]]{2} matched at position i of s
MatchesAt(s, i) ==
    /\ i + 9 <= Len(s)
    /\ \A k \in {0, 1, 2, 3, 5, 6, 8, 9} : s[i + k] \in Digits
    /\ s[i + 4] = "-"
    /\ s[i + 7] = "-"

\* Regex::is_match: the pattern is not anchored, a match anywhere counts
is_valid_date(date) == \E i \in 1..Len(date) : MatchesAt(date, i)

\* faulty variant: a list of nutrients with one name the tables do not take
NUTRIENTS_AND_SUGAR == {"protein", "carbs", "vegetables", "fats", "sugar"}

\* const NUTRIENTS
NUTRIENTS == {"protein", "carbs", "vegetables", "fats"}

\* faulty variant: the check of the nutrient lets every name through
AnyNutrient(nutrient) == TRUE

is_valid_nutrient(nutrient) == nutrient \in NUTRIENTS

\* ---------------------------------------------------------------- SQL
\* SUM(CASE type WHEN pos THEN 1 ELSE -1 END) over the rows W of a table
SumCase(tbl, W, pos) ==
    Cardinality({i \in W : tbl[i].type = pos})
        - Cardinality({i \in W : tbl[i].type # pos})

\* faulty variant: the CASE counts 0 for an unconsume row
SelectPortionsConsumed(tbl, date) ==
    LET W == {i \in DOMAIN tbl : tbl[i].date = date}
    IN [n \in {tbl[i].name : i \in W} |->
          Cardinality({i \in W : tbl[i].name = n /\ tbl[i].type = "consume"})]

\* faulty variant: HAVING SUM(..) <> 0, a balanced name gets no row
SelectPortionsNonZero(tbl, date) ==
    LET W == {i \in DOMAIN tbl : tbl[i].date = date}
        Sum(n) == SumCase(tbl, {i \in W : tbl[i].name = n}, "consume")
    IN [n \in {x \in {tbl[i].name : i \in W} : Sum(x) # 0} |-> Sum(n)]

\* SELECT name, SUM(..) FROM nutrient_events WHERE date = ? GROUP BY name
SelectPortions(tbl, date) ==
    LET W == {i \in DOMAIN tbl : tbl[i].date = date}
    IN [n \in {tbl[i].name : i \in W} |->
          SumCase(tbl, {i \in W : tbl[i].name = n}, "consume")]

\* faulty variant: HAVING SUM(..) <> 0, a balanced nutrient gets no row
SelectGoalsNonZero(tbl) ==
    LET Sum(n) == SumCase(tbl, {i \in DOMAIN tbl : tbl[i].nutrient = n}, "inc")
    IN [n \in {x \in {tbl[i].nutrient : i \in DOMAIN tbl} : Sum(x) # 0} |-> Sum(n)]

\* SELECT nutrient, SUM(..) FROM goal_events GROUP BY nutrient
SelectGoals(tbl) ==
    [n \in {tbl[i].nutrient : i \in DOMAIN tbl} |->
        SumCase(tbl, {i \in DOMAIN tbl : tbl[i].nutrient = n}, "inc")]

\* faulty variant: the WHERE clause leaves the date out
SelectPortionCountAnyDate(tbl, date, nutrient) ==
    LET W == {i \in DOMAIN tbl : tbl[i].name = nutrient}
    IN IF W = {} THEN None ELSE Some(SumCase(tbl, W, "consume"))

\* SELECT SUM(..) FROM nutrient_events WHERE date = ? AND name = ?
\* (an aggregate without GROUP BY: one row, NULL when no row matches)
SelectPortionCount(tbl, date, nutrient) ==
    LET W == {i \in DOMAIN tbl : tbl[i].date = date /\ tbl[i].name = nutrient}
    IN IF W = {} THEN None ELSE Some(SumCase(tbl, W, "consume"))

\* faulty variant: the SUM counts the inc rows only
SelectGoalCountIncs(tbl, nutrient) ==
    LET W == {i \in DOMAIN tbl : tbl[i].nutrient = nutrient /\ tbl[i].type = "inc"}
    IN IF W = {} THEN None ELSE Some(Cardinality(W))

\* SELECT SUM(..) FROM goal_events WHERE nutrient = ?
SelectGoalCount(tbl, nutrient) ==
    LET W == {i \in DOMAIN tbl : tbl[i].nutrient = nutrient}
    IN IF W = {} THEN None ELSE Some(SumCase(tbl, W, "inc"))

\* CHECK constraints of CREATE TABLE nutrient_events
NutrientRowOk(row) ==
    /\ row.name \in {"protein", "carbs", "vegetables", "fats"}
    /\ row.type \in {"consume", "unconsume"}

\* CHECK constraints of CREATE TABLE goal_events
GoalRowOk(row) ==
    /\ row.nutrient \in {"protein", "carbs", "vegetables", "fats"}
    /\ row.type \in {"inc", "dec"}

\* faulty variant: INSERT OR REPLACE under the id of the last row
InsertReplacing(tbl, row) ==
    IF tbl = <<>> THEN <<row>> ELSE [tbl EXCEPT ![Len(tbl)] = row]

\* faulty variant: the INSERT writes its row twice
InsertTwice(tbl, row) == tbl \o <<row, row>>

\* INSERT INTO ..: the new row gets the next id, no other row is touched
InsertRow(tbl, row) == Append(tbl, row)

\* faulty variant: count.is_some_and(|x| x == 0)
is_some_and_zero(c) == IF c = None THEN FALSE ELSE c[1] = 0

\* count.is_none_or(|x| x == 0)
is_none_or_zero(c) == IF c = None THEN TRUE ELSE c[1] = 0

\* ---------------------------------------------------------------- responses
\* Ok(Json("success")), Ok(Json(map)), AppError::InvalidRequest(reason)
Success == [status |-> 200, msg |-> "success", map |-> <<>>]
Json(m) == [status |-> 200, msg |-> "json", map |-> m]
InvalidRequest(m) == [status |-> 400, msg |-> m, map |-> <<>>]
\* DatabaseError(rusqlite::Error), with the error it wraps: the statement
\* failed in the store ("io"), or the row broke a CHECK ("constraint")
DatabaseError(e) == [status |-> 500, msg |-> e, map |-> <<>>]

\* ---------------------------------------------------------------- requests
\* the keys commands are issued on: three that pass validation, three that
\* fail it on the date, on the nutrient, and on both
PortionInputs ==
    {<<D1, "protein">>, <<D1, "carbs">>, <<DX, "protein">>,
     <<DBad, "protein">>, <<D1, "sugar">>, <<DBad, "sugar">>}

Requests ==
       {[op |-> "get_portions_for_date", date |-> d, nutrient |-> ""] :
            d \in DateInputs}
    \cup {[op |-> "get_goals", date |-> <<>>, nutrient |-> ""]}
    \cup {[op |-> o, date |-> k[1], nutrient |-> k[2]] :
            o \in {"consume_portion", "unconsume_portion"},
            k \in PortionInputs}
    \cup {[op |-> o, date |-> <<>>, nutrient |-> n] :
            o \in {"inc_goal", "dec_goal"}, n \in NutrientInputs}

Queries == {"get_portions_for_date", "get_goals"}
Commands == {"consume_portion", "unconsume_portion", "inc_goal", "dec_goal"}

\* ---------------------------------------------------------------- handlers
Running == BagToSet(handlers)

\* the commands whose handler has not returned yet, as a bag
InFlight == [h \in {x \in Running : x.req.op \in Commands} |-> handlers[h]]

Init ==
    /\ nutrient_events = <<>>
    /\ goal_events = <<>>
    /\ lock = FALSE
    /\ handlers = EmptyBag
    /\ resp = NoResp
    /\ script = NoScript

\* a response to request q
Response(q, r) == [req |-> q, status |-> r.status, msg |-> r.msg, map |-> r.map]

\* handler h goes on as g
Step(h, g) ==
    /\ handlers' = (handlers (-) SetToBag({h})) (+) SetToBag({g})
    /\ resp' = NoResp

\* faulty variant: a handler that returns an error keeps the mutex locked
ReturnLeakingGuard(h, r) ==
    /\ handlers' = handlers (-) SetToBag({h})
    /\ resp' = Response(h.req, r)
    /\ lock' = IF h.guard /\ r.status = 200 THEN FALSE ELSE lock

\* handler h returns r; the MutexGuard it holds is dropped
Return(h, r) ==
    /\ handlers' = handlers (-) SetToBag({h})
    /\ resp' = Response(h.req, r)
    /\ lock' = IF h.guard THEN FALSE ELSE lock

\* The router calls the handler of request r, which runs up to its
\* conn.lock(): consume_portion and unconsume_portion check the date, then
\* the nutrient; inc_goal and dec_goal check the nutrient; the two queries
\* check nothing.
Call(r) ==
    /\ BagCardinality(handlers) < NumProcs
    /\ IF r.op \in {"consume_portion", "unconsume_portion"}
          /\ ~is_valid_date(r.date)
       THEN /\ resp' = Response(r, InvalidRequest("invalid date"))
            /\ UNCHANGED handlers
       ELSE IF r.op \in Commands /\ ~is_valid_nutrient(r.nutrient)
       THEN /\ resp' = Response(r, InvalidRequest("invalid nutrient"))
            /\ UNCHANGED handlers
       ELSE /\ handlers' = handlers (+) SetToBag({[req |-> r, pc |-> "lock",
                                                   count |-> None, guard |-> FALSE]})
            /\ resp' = NoResp
    /\ UNCHANGED <<nutrient_events, goal_events, lock>>

\* Bound of the exploration: no command is let in once the rows written and
\* the commands under way number MaxEvents.
Admitted(r) ==
    \/ r.op \in Queries
    \/ Len(nutrient_events) + Len(goal_events) + BagCardinality(InFlight) < MaxEvents

\* a request arrives from the network
Request ==
    /\ script = NoScript
    /\ \E r \in Requests : Admitted(r) /\ Call(r)
    /\ UNCHANGED script

\* faulty variant: a lock that never blocks
AlwaysFree(h) == TRUE

\* whether conn.lock() returns now: it blocks while the mutex is locked
MutexFree(h) == ~lock

\* faulty variant: the handler goes on to the store without the mutex
LockSkipped(h) ==
    /\ h.pc = "lock"
    /\ Step(h, [h EXCEPT !.pc = "locked"])
    /\ UNCHANGED <<nutrient_events, goal_events, lock, script>>

\* conn.lock().unwrap()
Lock(h) ==
    /\ h.pc = "lock"
    /\ MutexFree(h)
    /\ lock' = TRUE
    /\ Step(h, [h EXCEPT !.pc = "locked", !.guard = TRUE])
    /\ UNCHANGED <<nutrient_events, goal_events, script>>

\* faulty variant: the query checks its date as the commands do
get_portions_validating(h, ok) ==
    /\ h.pc = "locked"
    /\ h.req.op = "get_portions_for_date"
    /\ Return(h, IF ~is_valid_date(h.req.date) THEN InvalidRequest("invalid date")
                  ELSE IF ok THEN Json(SelectPortions(nutrient_events, h.req.date))
                  ELSE DatabaseError("io"))
    /\ UNCHANGED <<nutrient_events, goal_events, script>>

\* ok: whether the statements of this step run without a rusqlite error
get_portions_for_date(h, ok) ==
    /\ h.pc = "locked"
    /\ h.req.op = "get_portions_for_date"
    /\ Return(h, IF ok THEN Json(SelectPortions(nutrient_events, h.req.date))
                  ELSE DatabaseError("io"))
    /\ UNCHANGED <<nutrient_events, goal_events, script>>

\* faulty variant: the query records that the goals were read
get_goals_logging(h, ok) ==
    /\ h.pc = "locked"
    /\ h.req.op = "get_goals"
    /\ Return(h, IF ok THEN Json(SelectGoals(goal_events)) ELSE DatabaseError("io"))
    /\ goal_events' = IF ok THEN Append(goal_events, [nutrient |-> "protein", type |-> "inc"])
                      ELSE goal_events
    /\ UNCHANGED <<nutrient_events, script>>

get_goals(h, ok) ==
    /\ h.pc = "locked"
    /\ h.req.op = "get_goals"
    /\ Return(h, IF ok THEN Json(SelectGoals(goal_events)) ELSE DatabaseError("io"))
    /\ UNCHANGED <<nutrient_events, goal_events, script>>

\* faulty variant: the row is written under a fixed date
consume_portion_fixed_date(h, ok) ==
    LET row == [name |-> h.req.nutrient, date |-> D1, type |-> "consume"]
    IN /\ h.pc = "locked"
       /\ h.req.op = "consume_portion"
       /\ IF ok /\ NutrientRowOk(row)
          THEN /\ nutrient_events' = InsertRow(nutrient_events, row)
               /\ Return(h, Success)
          ELSE /\ UNCHANGED nutrient_events
               /\ Return(h, DatabaseError(IF ok THEN "constraint" ELSE "io"))
       /\ UNCHANGED <<goal_events, script>>

consume_portion(h, ok) ==
    LET row == [name |-> h.req.nutrient, date |-> h.req.date, type |-> "consume"]
    IN /\ h.pc = "locked"
       /\ h.req.op = "consume_portion"
       /\ IF ok /\ NutrientRowOk(row)
          THEN /\ nutrient_events' = InsertRow(nutrient_events, row)
               /\ Return(h, Success)
          ELSE /\ UNCHANGED nutrient_events
               /\ Return(h, DatabaseError(IF ok THEN "constraint" ELSE "io"))
       /\ UNCHANGED <<goal_events, script>>

\* faulty variant: the guard is dropped once the SELECT has run
DroppedAfterSelect(h) == FALSE

\* whether the handler still holds its MutexGuard between its SELECT and
\* its INSERT: the guard lives to the end of the function
GuardAfterSelect(h) == h.guard

\* faulty variant: only a missing count is refused
RefuseOnlyNone(c) == c = None

\* whether the handler refuses the decrement, given the count it read
RefuseDecrement(c) == is_none_or_zero(c)

\* the handler has read c and goes on to its INSERT
AfterSelect(h, c) ==
    /\ Step(h, [h EXCEPT !.pc = "insert", !.count = c,
                         !.guard = GuardAfterSelect(h)])
    /\ lock' = IF h.guard /\ ~GuardAfterSelect(h) THEN FALSE ELSE lock

\* unconsume_portion up to its check of the count
unconsume_portion_select(h, ok) ==
    LET c == SelectPortionCount(nutrient_events, h.req.date, h.req.nutrient)
    IN /\ h.pc = "locked"
       /\ h.req.op = "unconsume_portion"
       /\ IF ~ok
          THEN Return(h, DatabaseError("io"))
          ELSE IF RefuseDecrement(c)
          THEN Return(h, InvalidRequest("can't unconsume because the count is already 0"))
          ELSE AfterSelect(h, c)
       /\ UNCHANGED <<nutrient_events, goal_events, script>>

unconsume_portion_insert(h, ok) ==
    LET row == [name |-> h.req.nutrient, date |-> h.req.date, type |-> "unconsume"]
    IN /\ h.pc = "insert"
       /\ h.req.op = "unconsume_portion"
       /\ IF ok /\ NutrientRowOk(row)
          THEN /\ nutrient_events' = InsertRow(nutrient_events, row)
               /\ Return(h, Success)
          ELSE /\ UNCHANGED nutrient_events
               /\ Return(h, DatabaseError(IF ok THEN "constraint" ELSE "io"))
       /\ UNCHANGED <<goal_events, script>>

inc_goal(h, ok) ==
    LET row == [nutrient |-> h.req.nutrient, type |-> "inc"]
    IN /\ h.pc = "locked"
       /\ h.req.op = "inc_goal"
       /\ IF ok /\ GoalRowOk(row)
          THEN /\ goal_events' = InsertRow(goal_events, row)
               /\ Return(h, Success)
          ELSE /\ UNCHANGED goal_events
               /\ Return(h, DatabaseError(IF ok THEN "constraint" ELSE "io"))
       /\ UNCHANGED <<nutrient_events, script>>

\* dec_goal up to its check of the count
dec_goal_select(h, ok) ==
    LET c == SelectGoalCount(goal_events, h.req.nutrient)
    IN /\ h.pc = "locked"
       /\ h.req.op = "dec_goal"
       /\ IF ~ok
          THEN Return(h, DatabaseError("io"))
          ELSE IF RefuseDecrement(c)
          THEN Return(h, InvalidRequest("can't decrease because the goal is already 0"))
          ELSE AfterSelect(h, c)
       /\ UNCHANGED <<nutrient_events, goal_events, script>>

dec_goal_insert(h, ok) ==
    LET row == [nutrient |-> h.req.nutrient, type |-> "dec"]
    IN /\ h.pc = "insert"
       /\ h.req.op = "dec_goal"
       /\ IF ok /\ GoalRowOk(row)
          THEN /\ goal_events' = InsertRow(goal_events, row)
               /\ Return(h, Success)
          ELSE /\ UNCHANGED goal_events
               /\ Return(h, DatabaseError(IF ok THEN "constraint" ELSE "io"))
       /\ UNCHANGED <<nutrient_events, script>>

Next ==
    \/ Request
    \/ \E h \in Running : Lock(h)
    \/ \E h \in Running, ok \in BOOLEAN : get_portions_for_date(h, ok)
    \/ \E h \in Running, ok \in BOOLEAN : get_goals(h, ok)
    \/ \E h \in Running, ok \in BOOLEAN : consume_portion(h, ok)
    \/ \E h \in Running, ok \in BOOLEAN : unconsume_portion_select(h, ok)
    \/ \E h \in Running, ok \in BOOLEAN : unconsume_portion_insert(h, ok)
    \/ \E h \in Running, ok \in BOOLEAN : inc_goal(h, ok)
    \/ \E h \in Running, ok \in BOOLEAN : dec_goal_select(h, ok)
    \/ \E h \in Running, ok \in BOOLEAN : dec_goal_insert(h, ok)

Spec == Init /\ [][Next]_vars

\* ---------------------------------------------------------------- scheduling
\* The requests of the runs checked under fair scheduling, and of the runs
\* with a reader: every operation, on one date and on one nutrient that
\* passes validation and one that fails.
FairRequests ==
    {r \in Requests : r.date \in {<<>>, D1} /\ r.nutrient \in {"", "protein", "sugar"}}

FairRequest ==
    /\ script = NoScript
    /\ \E r \in FairRequests : Admitted(r) /\ Call(r)
    /\ UNCHANGED script

\* the handlers of these requests when blocked in conn.lock()
Waiting ==
    {[req |-> r, pc |-> "lock", count |-> None, guard |-> FALSE] :
        r \in {q \in FairRequests : q.op \in Commands => is_valid_nutrient(q.nutrient)}}

\* a step of a handler past its conn.lock()
HandlerStep ==
    \E h \in Running, ok \in BOOLEAN :
        \/ get_portions_for_date(h, ok)
        \/ get_goals(h, ok)
        \/ consume_portion(h, ok)
        \/ unconsume_portion_select(h, ok)
        \/ unconsume_portion_insert(h, ok)
        \/ inc_goal(h, ok)
        \/ dec_goal_select(h, ok)
        \/ dec_goal_insert(h, ok)

FairNext ==
    \/ FairRequest
    \/ \E h \in Running : Lock(h)
    \/ \E h \in Running, ok \in BOOLEAN : get_portions_for_date(h, ok)
    \/ \E h \in Running, ok \in BOOLEAN : get_goals(h, ok)
    \/ \E h \in Running, ok \in BOOLEAN : consume_portion(h, ok)
    \/ \E h \in Running, ok \in BOOLEAN : unconsume_portion_select(h, ok)
    \/ \E h \in Running, ok \in BOOLEAN : unconsume_portion_insert(h, ok)
    \/ \E h \in Running, ok \in BOOLEAN : inc_goal(h, ok)
    \/ \E h \in Running, ok \in BOOLEAN : dec_goal_select(h, ok)
    \/ \E h \in Running, ok \in BOOLEAN : dec_goal_insert(h, ok)

\* Fair scheduling: the handler that holds the guard has no await and no
\* blocking call before it returns, so it goes on; a handler blocked in
\* conn.lock() acquires the mutex if the mutex is free again and again.
SpecFair ==
    /\ Init
    /\ [][FairNext]_vars
    /\ WF_vars(HandlerStep)
    /\ \A h \in Waiting : SF_vars(Lock(h))

\* ---------------------------------------------------------------- one client
\* A client that starts on the empty tables and issues, one call after the
\* other's response, n consume calls, m unconsume calls and one query of the
\* day, all on one key, recording the status of every response.
SeqInit ==
    /\ nutrient_events = <<>>
    /\ goal_events = <<>>
    /\ lock = FALSE
    /\ handlers = EmptyBag
    /\ resp = NoResp
    /\ \E n \in 1..MaxN, m \in 0..MaxN, k \in PortionInputs :
          /\ m <= n
          /\ is_valid_date(k[1])
          /\ is_valid_nutrient(k[2])
          /\ script = [phase |-> "run", n |-> n, m |-> m, date |-> k[1],
                       nutrient |-> k[2], statuses |-> <<>>, faults |-> 0,
                       result |-> NoResp]

\* the i-th call of the client
SeqRequest(i) ==
    [op |-> IF i <= script.n THEN "consume_portion"
            ELSE IF i <= script.n + script.m THEN "unconsume_portion"
            ELSE "get_portions_for_date",
     date |-> script.date,
     nutrient |-> IF i <= script.n + script.m THEN script.nutrient ELSE ""]

\* the client takes the response to its last call and issues the next one
SeqStep ==
    /\ script.phase = "run"
    /\ handlers = EmptyBag
    /\ LET calls == script.n + script.m + 1
           seen == IF resp = NoResp THEN script
                   ELSE [script EXCEPT
                           !.statuses = Append(@, resp.status),
                           !.faults = @ + (IF resp.msg = "io" THEN 1 ELSE 0),
                           !.result = resp]
       IN IF Len(seen.statuses) < calls
          THEN /\ Call(SeqRequest(Len(seen.statuses) + 1))
               /\ script' = seen
          ELSE /\ script' = [seen EXCEPT !.phase = "done"]
               /\ resp' = NoResp
               /\ UNCHANGED <<nutrient_events, goal_events, lock, handlers>>

SeqNext ==
    \/ SeqStep
    \/ \E h \in Running : Lock(h)
    \/ \E h \in Running, ok \in BOOLEAN : get_portions_for_date(h, ok)
    \/ \E h \in Running, ok \in BOOLEAN : consume_portion(h, ok)
    \/ \E h \in Running, ok \in BOOLEAN : unconsume_portion_select(h, ok)
    \/ \E h \in Running, ok \in BOOLEAN : unconsume_portion_insert(h, ok)

SpecSeq == SeqInit /\ [][SeqNext]_vars

\* ---------------------------------------------------------------- one reader
\* Any number of callers as in Spec, and a reader that keeps a mapping a
\* query returned, together with the rows the tables held at that response.
ReadInit ==
    /\ nutrient_events = <<>>
    /\ goal_events = <<>>
    /\ lock = FALSE
    /\ handlers = EmptyBag
    /\ resp = NoResp
    /\ script = [phase |-> "read", seen |-> NoResp,
                 nutrient_events |-> <<>>, goal_events |-> <<>>]

ReadRequest ==
    /\ script.phase = "read"
    /\ \E r \in FairRequests : Admitted(r) /\ Call(r)
    /\ UNCHANGED script

\* the reader takes the mapping just returned
Read ==
    /\ script.phase = "read"
    /\ resp.msg = "json"
    /\ script' = [script EXCEPT !.seen = resp,
                                !.nutrient_events = nutrient_events,
                                !.goal_events = goal_events]
    /\ resp' = NoResp
    /\ UNCHANGED <<nutrient_events, goal_events, lock, handlers>>

ReadNext ==
    \/ ReadRequest
    \/ Read
    \/ \E h \in Running : Lock(h)
    \/ \E h \in Running, ok \in BOOLEAN : get_portions_for_date(h, ok)
    \/ \E h \in Running, ok \in BOOLEAN : get_goals(h, ok)
    \/ \E h \in Running, ok \in BOOLEAN : consume_portion(h, ok)
    \/ \E h \in Running, ok \in BOOLEAN : unconsume_portion_select(h, ok)
    \/ \E h \in Running, ok \in BOOLEAN : unconsume_portion_insert(h, ok)
    \/ \E h \in Running, ok \in BOOLEAN : inc_goal(h, ok)
    \/ \E h \in Running, ok \in BOOLEAN : dec_goal_select(h, ok)
    \/ \E h \in Running, ok \in BOOLEAN : dec_goal_insert(h, ok)

SpecRead == ReadInit /\ [][ReadNext]_vars

\* ---------------------------------------------------------------- properties
\* The names and kinds of section 3 of the specification, and the values it
\* derives from the rows, counted row by row.
SpecNutrients == {"protein", "carbs", "vegetables", "fats"}
AllNutrients == SpecNutrients \cup NutrientInputs

Consumed(d, n) ==
    Cardinality({i \in DOMAIN nutrient_events :
        /\ nutrient_events[i].date = d
        /\ nutrient_events[i].name = n
        /\ nutrient_events[i].type = "consume"})

Unconsumed(d, n) ==
    Cardinality({i \in DOMAIN nutrient_events :
        /\ nutrient_events[i].date = d
        /\ nutrient_events[i].name = n
        /\ nutrient_events[i].type = "unconsume"})

Incs(n) ==
    Cardinality({i \in DOMAIN goal_events :
        goal_events[i].nutrient = n /\ goal_events[i].type = "inc"})

Decs(n) ==
    Cardinality({i \in DOMAIN goal_events :
        goal_events[i].nutrient = n /\ goal_events[i].type = "dec"})

PortionValue(d, n) == Consumed(d, n) - Unconsumed(d, n)
GoalValue(n) == Incs(n) - Decs(n)

\* the value of the key of command q
KeyValue(q) ==
    IF q.op \in {"consume_portion", "unconsume_portion"}
    THEN PortionValue(q.date, q.nutrient)
    ELSE GoalValue(q.nutrient)

\* the key of command q has at least one row
KeySeen(q) ==
    IF q.op \in {"consume_portion", "unconsume_portion"}
    THEN Consumed(q.date, q.nutrient) + Unconsumed(q.date, q.nutrient) > 0
    ELSE Incs(q.nutrient) + Decs(q.nutrient) > 0

\* the mapping section 4.2 asks of queryDay(d) and of queryGoals()
ExpectedDay(d) ==
    [n \in {x \in AllNutrients : Consumed(d, x) + Unconsumed(d, x) > 0} |->
        PortionValue(d, n)]

ExpectedGoals ==
    [n \in {x \in AllNutrients : Incs(x) + Decs(x) > 0} |-> GoalValue(n)]

\* handler h takes the step
Took(h) == CopiesIn(h, handlers') < CopiesIn(h, handlers)

IsPrefix(s, t) == Len(s) <= Len(t) /\ SubSeq(t, 1, Len(s)) = s

Refusals == {"can't unconsume because the count is already 0",
             "can't decrease because the goal is already 0"}

\* C1: in every reachable state the derived value of every (date, nutrient)
\* pair and of every goal nutrient is >= 0, and no query response holds a
\* negative value.
C1_NeverNegative ==
    /\ \A d \in DateInputs, n \in AllNutrients : PortionValue(d, n) >= 0
    /\ \A n \in AllNutrients : GoalValue(n) >= 0
    /\ resp.msg = "json" => \A k \in DOMAIN resp.map : resp.map[k] >= 0

\* a decrement has just succeeded and has brought its key back to 0
C1_Witness ==
    /\ resp.status = 200
    /\ resp.req.op \in {"unconsume_portion", "dec_goal"}
    /\ KeyValue(resp.req) = 0

\* C2 (under SpecSeq): when the client that issued n >= 1 consume calls, then
\* m <= n unconsume calls, then the query of the day, is done and the store
\* failed under none of them, every call succeeded and the query returned
\* n - m for the nutrient.
C2_ConsumeThenUnconsume ==
    (script.phase = "done" /\ script.faults = 0) =>
        /\ Len(script.statuses) = script.n + script.m + 1
        /\ \A i \in DOMAIN script.statuses : script.statuses[i] = 200
        /\ script.result.msg = "json"
        /\ script.nutrient \in DOMAIN script.result.map
        /\ script.result.map[script.nutrient] = script.n - script.m

C2_Witness ==
    /\ script.phase = "done"
    /\ script.faults = 0
    /\ script.n >= 2
    /\ script.m >= 1
    /\ script.m < script.n

\* C3: when unconsume_portion reads its count while the value of its
\* (date, nutrient) is 0, the key never seen or its rows in balance, the
\* handler returns at once, with InvalidRequest unless the SELECT itself
\* failed in the store; no row is appended and the query of that day gives
\* what it gave before.
C3_UnconsumeAtZero ==
    [][\A h \in Running :
         (/\ h.pc = "locked"
          /\ h.req.op = "unconsume_portion"
          /\ PortionValue(h.req.date, h.req.nutrient) = 0
          /\ Took(h))
         => /\ nutrient_events' = nutrient_events
            /\ goal_events' = goal_events
            /\ SelectPortions(nutrient_events', h.req.date)
                 = SelectPortions(nutrient_events, h.req.date)
            /\ resp'.req = h.req
            /\ \/ resp'.status = 500 /\ resp'.msg = "io"
               \/ /\ resp'.status = 400
                  /\ resp'.msg = "can't unconsume because the count is already 0"]_vars

\* unconsume has just been refused on a key whose rows are in balance
C3_Witness ==
    /\ resp.req.op = "unconsume_portion"
    /\ resp.status = 400
    /\ resp.msg = "can't unconsume because the count is already 0"
    /\ KeySeen(resp.req)

\* C4: when dec_goal reads its count while the goal of its nutrient is
\* absent or 0, it returns InvalidRequest (unless the SELECT failed in the
\* store) and both tables stay as they are; when the goal is above 0 it goes
\* on to its INSERT, which appends exactly the row (nutrient, dec) to
\* goal_events and nothing else (unless a statement failed in the store,
\* which appends nothing).
C4_DecGoal ==
    [][\A h \in Running :
         (h.req.op = "dec_goal" /\ Took(h)) =>
            /\ nutrient_events' = nutrient_events
            /\ (h.pc = "locked" /\ GoalValue(h.req.nutrient) = 0) =>
                  /\ goal_events' = goal_events
                  /\ SelectGoals(goal_events') = SelectGoals(goal_events)
                  /\ resp'.req = h.req
                  /\ \/ resp'.status = 500 /\ resp'.msg = "io"
                     \/ /\ resp'.status = 400
                        /\ resp'.msg = "can't decrease because the goal is already 0"
            /\ (h.pc = "locked" /\ GoalValue(h.req.nutrient) # 0) =>
                  /\ goal_events' = goal_events
                  /\ \/ resp'.req = h.req /\ resp'.status = 500 /\ resp'.msg = "io"
                     \/ /\ resp' = NoResp
                        /\ \E g \in BagToSet(handlers') :
                              g.req = h.req /\ g.pc = "insert"
            /\ h.pc = "insert" =>
                  /\ resp'.req = h.req
                  /\ \/ /\ resp'.status = 500
                        /\ resp'.msg = "io"
                        /\ goal_events' = goal_events
                     \/ /\ resp'.status = 200
                        /\ goal_events' = Append(goal_events,
                              [nutrient |-> h.req.nutrient, type |-> "dec"])]_vars

\* dec_goal has just been refused on a nutrient whose goal rows are in balance
C4_Witness ==
    /\ resp.req.op = "dec_goal"
    /\ resp.status = 400
    /\ resp.msg = "can't decrease because the goal is already 0"
    /\ KeySeen(resp.req)

\* C5: in every state the two queries give the mapping of section 4.2: the
\* keys are the subjects with at least one row in the filtered set, the
\* value of a key is its positive rows minus its negative rows, 0 for a key in
\* balance, and the mapping is empty when no row matches; every query
\* response holds that mapping.
C5_QueryMapping ==
    /\ \A d \in DateInputs : SelectPortions(nutrient_events, d) = ExpectedDay(d)
    /\ SelectGoals(goal_events) = ExpectedGoals
    /\ (resp.msg = "json" /\ resp.req.op = "get_portions_for_date") =>
          resp.map = ExpectedDay(resp.req.date)
    /\ (resp.msg = "json" /\ resp.req.op = "get_goals") =>
          resp.map = ExpectedGoals

\* a query of a day has just returned two keys, one of them in balance
C5_Witness ==
    /\ resp.msg = "json"
    /\ resp.req.op = "get_portions_for_date"
    /\ \E k, l \in DOMAIN resp.map : resp.map[k] = 0 /\ resp.map[l] > 0

\* C6 as claimed: no query response holds an entry of value 0.
C6_NoZeroEntry ==
    resp.msg = "json" => \A k \in DOMAIN resp.map : resp.map[k] # 0

\* C6 as amended: a query response leaves out exactly the subjects with no
\* row in the filtered set and reports a subject whose rows are in balance
\* with the value 0; a decrement is refused as "already 0" only on a key
\* whose value is 0, be it missing or in balance.
C6_ZeroReported ==
    /\ resp.msg = "json" =>
          \A n \in AllNutrients :
             LET rows == IF resp.req.op = "get_goals"
                         THEN Incs(n) + Decs(n)
                         ELSE Consumed(resp.req.date, n) + Unconsumed(resp.req.date, n)
                 value == IF resp.req.op = "get_goals"
                          THEN GoalValue(n)
                          ELSE PortionValue(resp.req.date, n)
             IN /\ n \in DOMAIN resp.map <=> rows > 0
                /\ (rows > 0 /\ value = 0) => resp.map[n] = 0
    /\ resp.msg \in Refusals => KeyValue(resp.req) = 0

\* the goals have just been queried with a nutrient in balance
C6_Witness ==
    /\ resp.msg = "json"
    /\ resp.req.op = "get_goals"
    /\ \E k \in DOMAIN resp.map : resp.map[k] = 0

\* C7: a handler between its SELECT and its INSERT holds the count the
\* tables still give its key, and that count is above 0: no row of the key
\* was appended since the handler read it, whatever the other requests do.
C7_ReadDecideAppendAtomic ==
    \A h \in Running :
        h.pc = "insert" =>
            /\ handlers[h] = 1
            /\ h.count = Some(KeyValue(h.req))
            /\ KeyValue(h.req) > 0

\* a decrement is between its SELECT and its INSERT while a second
\* decrement of the same key waits for the mutex
C7_Witness ==
    \E h, g \in Running :
        /\ h.pc = "insert"
        /\ g.pc = "lock"
        /\ g.req = h.req
        /\ KeyValue(h.req) = 1

\* C8: at most one handler is past conn.lock(); it holds the guard of the
\* locked mutex, and every other handler under way waits at conn.lock()
\* without a guard.
C8_OneAtATime ==
    LET Inside(h) == h.pc \in {"locked", "insert"}
    IN /\ BagCardinality([h \in {x \in Running : Inside(x)} |-> handlers[h]]) <= 1
       /\ \A h \in Running :
             /\ Inside(h) => h.guard /\ lock
             /\ ~Inside(h) => h.pc = "lock" /\ ~h.guard
       /\ lock => \E h \in Running : Inside(h)

\* a handler is inside while another one waits
C8_Witness ==
    \E h, g \in Running : h.pc = "locked" /\ g.pc = "lock"

\* C9: every step leaves each table a prefix of what it becomes.
C9_AppendOnly ==
    [][/\ IsPrefix(nutrient_events, nutrient_events')
       /\ IsPrefix(goal_events, goal_events')]_vars

\* both tables have rows, one of them written by a decrement
C9_Witness ==
    /\ Len(nutrient_events) >= 2
    /\ Len(goal_events) >= 1
    /\ \E i \in DOMAIN nutrient_events : nutrient_events[i].type = "unconsume"

\* C10: no command with a nutrient outside the four names gets past its
\* validation; the step that answers such a command answers InvalidRequest
\* and changes neither table.
C10_UnknownNutrientRejected ==
    [][/\ \A h \in BagToSet(handlers') :
             h.req.op \in Commands => h.req.nutrient \in SpecNutrients
       /\ (/\ resp'.status # 0
           /\ resp'.req.op \in Commands
           /\ resp'.req.nutrient \notin SpecNutrients)
          => /\ resp'.status = 400
             /\ nutrient_events' = nutrient_events
             /\ goal_events' = goal_events]_vars

\* a command on a well-shaped date and an unknown nutrient has just been
\* refused while both tables hold rows
C10_Witness ==
    /\ resp.status = 400
    /\ resp.msg = "invalid nutrient"
    /\ resp.req.op \in {"consume_portion", "unconsume_portion"}
    /\ resp.req.date = D1
    /\ nutrient_events # <<>>
    /\ goal_events # <<>>

\* exactly four digits, a dash, two digits, a dash, two digits
WellShaped(s) ==
    /\ Len(s) = 10
    /\ \A k \in {1, 2, 3, 4, 6, 7, 9, 10} : s[k] \in Digits
    /\ s[5] = "-"
    /\ s[8] = "-"

\* C11: the check of the date lets through exactly the well-shaped dates: a
\* consume or unconsume gets past it only on a well-shaped date and is
\* refused for its date only on another one; every consume or unconsume on a
\* date of any other shape is answered InvalidRequest, and no row with such a
\* date is ever written.
C11_ExactDateShape ==
    /\ \A h \in Running :
          h.req.op \in {"consume_portion", "unconsume_portion"}
             => WellShaped(h.req.date)
    /\ resp.msg = "invalid date" => ~WellShaped(resp.req.date)
    /\ \A i \in DOMAIN nutrient_events : WellShaped(nutrient_events[i].date)
    /\ (/\ resp.status # 0
        /\ resp.req.op \in {"consume_portion", "unconsume_portion"}
        /\ ~WellShaped(resp.req.date))
       => resp.status = 400

C13_PureReads ==
    /\ [][\A h \in Running :
             Took(h) /\ h.req.op \in Queries
                => /\ nutrient_events' = nutrient_events
                   /\ goal_events' = goal_events]_vars
    /\ [](/\ resp.msg = "json"
          /\ script.seen.req = resp.req
          /\ script.nutrient_events = nutrient_events
          /\ script.goal_events = goal_events
          => resp.map = script.seen.map)

\* a query has returned a second time on tables that hold rows, with the
\* first mapping taken and no row written since, while a command waits
C13_Witness ==
    /\ resp.msg = "json"
    /\ script.seen.req = resp.req
    /\ script.nutrient_events = nutrient_events
    /\ script.goal_events = goal_events
    /\ DOMAIN resp.map # {}
    /\ \E h \in Running : h.req.op \in Commands

\* The counter machine of section 4: the counter of a key is the signed sum
\* of the key's rows; the change of every counter over a step.
PortionDelta(d, n) == PortionValue(d, n)' - PortionValue(d, n)
GoalDelta(n) == GoalValue(n)' - GoalValue(n)

\* every counter but that of the key of command q stays as it is
OtherCountersKept(q) ==
    /\ \A d \in DateInputs, n \in AllNutrients :
          (q.op \in {"inc_goal", "dec_goal"} \/ <<d, n>> # <<q.date, q.nutrient>>)
             => PortionDelta(d, n) = 0
    /\ \A n \in AllNutrients :
          (q.op \in {"consume_portion", "unconsume_portion"} \/ n # q.nutrient)
             => GoalDelta(n) = 0

\* the change of the counter of the key of command q
KeyDelta(q) == KeyValue(q)' - KeyValue(q)

\* C14: every step is a step of the counter machine. A step that answers a
\* consume or an inc that passed validation answers success and adds 1 to
\* the counter of its key, unless the store failed; a step that answers an
\* unconsume or a dec that passed validation answers success and subtracts 1
\* from a counter that was > 0, or refuses and leaves a counter that was 0,
\* unless the store failed; every other counter stays as it is, and every
\* other step leaves the rows of both tables, and so every counter, as they
\* are.
C14_CounterMachine ==
    [][\A q \in Requests \cup {NoReq} : resp'.req = q =>
       LET validated == /\ resp'.status # 0
                        /\ q.op \in Commands
                        /\ resp'.msg \notin {"invalid date", "invalid nutrient"}
       IN IF ~validated
          THEN /\ nutrient_events' = nutrient_events
               /\ goal_events' = goal_events
          ELSE /\ OtherCountersKept(q)
               /\ IF resp'.msg = "io"
                  THEN KeyDelta(q) = 0
                  ELSE IF q.op \in {"consume_portion", "inc_goal"}
                  THEN resp'.status = 200 /\ KeyDelta(q) = 1
                  ELSE IF KeyValue(q) > 0
                  THEN resp'.status = 200 /\ KeyDelta(q) = -1
                  ELSE resp'.msg \in Refusals /\ KeyDelta(q) = 0]_vars

\* a decrement has just brought the counter of its key from 1 to 0 while a
\* counter of the other table is 1 and another handler is blocked
C14_Witness ==
    /\ resp.status = 200
    /\ resp.req.op \in {"unconsume_portion", "dec_goal"}
    /\ KeyValue(resp.req) = 0
    /\ IF resp.req.op = "dec_goal"
       THEN \E d \in DateInputs, n \in AllNutrients : PortionValue(d, n) = 1
       ELSE \E n \in AllNutrients : GoalValue(n) = 1
    /\ \E h \in Running : h.pc = "lock"

\* the row a successful command q appends, and whether it goes to the
\* nutrient ledger
EventOf(q) ==
    IF q.op = "consume_portion"
    THEN [name |-> q.nutrient, date |-> q.date, type |-> "consume"]
    ELSE IF q.op = "unconsume_portion"
    THEN [name |-> q.nutrient, date |-> q.date, type |-> "unconsume"]
    ELSE IF q.op = "inc_goal"
    THEN [nutrient |-> q.nutrient, type |-> "inc"]
    ELSE [nutrient |-> q.nutrient, type |-> "dec"]

\* C15: a table changes only in the step in which a command answers
\* success, its last step; in that step the table of the command gets
\* exactly the one row of the command's kind and key at its end, and the
\* other table stays as it is. So a command that answers InvalidRequest or
\* StoreFailure has appended nothing, and no command appends twice.
C15_OneWholeEvent ==
    [][IF resp'.status = 200 /\ resp'.req.op \in Commands
       THEN IF resp'.req.op \in {"consume_portion", "unconsume_portion"}
            THEN /\ nutrient_events' = Append(nutrient_events, EventOf(resp'.req))
                 /\ goal_events' = goal_events
            ELSE /\ goal_events' = Append(goal_events, EventOf(resp'.req))
                 /\ nutrient_events' = nutrient_events
       ELSE /\ nutrient_events' = nutrient_events
            /\ goal_events' = goal_events]_vars

\* an unconsume has just answered success and its row is the last of the
\* nutrient ledger, which is as long as the exploration lets it grow
C15_Witness ==
    /\ resp.status = 200
    /\ resp.req.op = "unconsume_portion"
    /\ Len(nutrient_events) = MaxEvents
    /\ nutrient_events[Len(nutrient_events)] = EventOf(resp.req)

\* the answers of the validation of a command
ValidationRefusals == {"invalid date", "invalid nutrient"}

\* C16 as stated: every step that answers a request, the refusals of the
\* validation included, is taken by a handler of that request that holds
\* the guard, and no request is validated while the mutex is locked.
C16_EndToEnd ==
    [][/\ resp'.status # 0
          => \E h \in Running : Took(h) /\ h.guard /\ h.req = resp'.req
       /\ resp'.msg \in ValidationRefusals => ~lock]_vars

\* C16 amended: every step that reads or writes a table or returns from a
\* handler past its validation is taken by a handler that holds the guard,
\* the only handler that does, with the mutex locked, whatever the keys;
\* the validation of a command runs before conn.lock(): the step that
\* refuses it touches neither the mutex nor a table nor a handler.
C16_StoreStepsInGate ==
    [][/\ (\/ nutrient_events' # nutrient_events
           \/ goal_events' # goal_events
           \/ resp'.status # 0 /\ resp'.msg \notin ValidationRefusals)
          => /\ lock
             /\ \E h \in Running :
                   /\ Took(h)
                   /\ h.guard
                   /\ handlers[h] = 1
                   /\ \A g \in Running : g.guard => g = h
       /\ resp'.msg \in ValidationRefusals
          => /\ lock' = lock
             /\ handlers' = handlers
             /\ nutrient_events' = nutrient_events
             /\ goal_events' = goal_events]_vars

\* a command has just been refused by its validation while a handler on
\* another key is between its SELECT and its INSERT, holding the guard
C16_Witness ==
    /\ resp.msg \in ValidationRefusals
    /\ lock
    /\ \E h \in Running : h.pc = "insert" /\ h.guard

\* s and t are the same string, character for character
SameString(s, t) == Len(s) = Len(t) /\ \A i \in 1..Len(s) : s[i] = t[i]

\* the rows whose stored date is the string d, and the mapping they give
RowsOfDay(d) ==
    {i \in DOMAIN nutrient_events : SameString(nutrient_events[i].date, d)}

DayMapping(d) ==
    [n \in {nutrient_events[i].name : i \in RowsOfDay(d)} |->
        Cardinality({i \in RowsOfDay(d) : /\ nutrient_events[i].name = n
                                          /\ nutrient_events[i].type = "consume"})
      - Cardinality({i \in RowsOfDay(d) : /\ nutrient_events[i].name = n
                                          /\ nutrient_events[i].type = "unconsume"})]

\* C17: no response to a query of a day is an InvalidRequest, whatever the
\* shape of its date; unless the store failed the response is a success and
\* holds the mapping of exactly the rows whose stored date is the queried
\* string.
C17_QueryDayAnyDate ==
    (resp.status # 0 /\ resp.req.op = "get_portions_for_date")
       => /\ resp.status # 400
          /\ \/ resp.status = 500 /\ resp.msg = "io"
             \/ /\ resp.status = 200
                /\ resp.msg = "json"
                /\ resp.map = DayMapping(resp.req.date)

\* a query of a date that is not well-shaped has just returned the one row
\* stored under that very string, and not the rows of the well-shaped date
\* the string contains
C17_Witness ==
    /\ resp.status = 200
    /\ resp.req.op = "get_portions_for_date"
    /\ ~WellShaped(resp.req.date)
    /\ DOMAIN resp.map = {"protein"}
    /\ resp.map["protein"] = 1
    /\ PortionValue(D1, "protein") = 2

\* C18: in every state every row of nutrient_events has a name among the
\* four nutrients and the type consume or unconsume, every row of
\* goal_events has a nutrient among the four and the type inc or dec, no
\* handler past its validation carries another name, and no response is a
\* failure of a CHECK constraint of the tables.
C18_StoredValuesInSet ==
    /\ \A i \in DOMAIN nutrient_events :
          /\ nutrient_events[i].name \in SpecNutrients
          /\ nutrient_events[i].type \in {"consume", "unconsume"}
    /\ \A i \in DOMAIN goal_events :
          /\ goal_events[i].nutrient \in SpecNutrients
          /\ goal_events[i].type \in {"inc", "dec"}
    /\ \A h \in Running : h.req.op \in Commands => h.req.nutrient \in SpecNutrients
    /\ resp.msg # "constraint"

\* a change of goal on a name outside the four has just been refused by the
\* validation, with rows in both tables
C18_Witness ==
    /\ resp.status = 400
    /\ resp.req.op \in {"inc_goal", "dec_goal"}
    /\ resp.req.nutrient \notin SpecNutrients
    /\ nutrient_events # <<>>
    /\ goal_events # <<>>

\* the step leaves every key but that of command q as it is: the table of
\* the key has its rows unchanged, or at least the value of every other key
OtherKeysKept(q) ==
    IF q.op \in {"consume_portion", "unconsume_portion"}
    THEN /\ goal_events' = goal_events
         /\ \/ nutrient_events' = nutrient_events
            \/ \A d \in DateInputs, n \in AllNutrients :
                  <<d, n>> # <<q.date, q.nutrient>>
                     => PortionValue(d, n)' = PortionValue(d, n)
    ELSE /\ nutrient_events' = nutrient_events
         /\ \/ goal_events' = goal_events
            \/ \A n \in AllNutrients :
                  n # q.nutrient => GoalValue(n)' = GoalValue(n)

\* C19: a step of a consume or an unconsume on (date, nutrient), be it a
\* step of its handler or the step that answers it, leaves the value of
\* every other pair and all rows of goal_events as they are; a step of an
\* inc or a dec on a nutrient leaves the goal value of every other nutrient
\* and all rows of nutrient_events as they are.
C19_OwnKeyOnly ==
    [][/\ \A h \in Running :
             (Took(h) /\ h.req.op \in Commands) => OtherKeysKept(h.req)
       /\ (resp'.status # 0 /\ resp'.req.op \in Commands)
             => OtherKeysKept(resp'.req)]_vars

\* a consume on a date has just written its row while the same nutrient has
\* the value 1 on another date and the value 1 as a goal
C19_Witness ==
    /\ resp.status = 200
    /\ resp.req.op = "consume_portion"
    /\ PortionValue(resp.req.date, resp.req.nutrient) = 1
    /\ \E d \in DateInputs :
          d # resp.req.date /\ PortionValue(d, resp.req.nutrient) = 1
    /\ GoalValue(resp.req.nutrient) = 1

====
